---- MODULE Spec2Model ----
(***************************************************************************)
(* Account authentication and token lifecycle of dash.py: the Credential   *)
(* Store (st.session_state['accounts_config'] backed by config.json), the  *)
(* Session Authenticator (authenticate_account), the Account Session       *)
(* Registry (st.session_state['authenticated_accounts']) and the callers   *)
(* of the authenticator (startup auto-connect, Connect, Disconnect), and   *)
(* the background scheduler thread with the export it fires.               *)
(*                                                                         *)
(* Python None, '' and an absent dictionary key are all read by the code   *)
(* through .get() and tested for truthiness only, so the three are         *)
(* modelled by the empty string.  " " is a whitespace-only token: truthy,  *)
(* but empty after str.strip().                                            *)
(***************************************************************************)
EXTENDS Integers, Sequences, FiniteSets, TLC

\* ---------------------------------------------------------------- bounds
\* longest activity log explored (every attempt and disconnect logs a line)
MaxLog == 2
\* most firings of the export explored (timer and manual sync together)
MaxExports == 1
\* most scheduler threads a behaviour may start
MaxThreads == 2

\* ------------------------------------------------------- input alphabets
AccountIds == <<"A1", "A2">>
ApiKeys == {"", "K1"}
ApiSecrets == {"", "S1"}
StoredRequestTokens == {"", " ", "RT1"}
StoredAccessTokens == {"", " ", "AT0"}
TypedTokens == {" ", "RT2"}
IssuedTokens == {"AT1", "AT2"}
ErrTexts == {"NetworkError", "TokenException"}

\* ------------------------------------------------------- python helpers
\* bool(s) of a str (or None)
Truthy(s) == s # ""

\* str.strip(): the whitespace-only token becomes empty
Strip(s) == IF s = " " THEN "" ELSE s

\* the (None, ...) first component of authenticate_account's result; a real
\* KiteConnect object is only built after api_key was found truthy
NoKite == [api_key |-> "", access_token |-> ""]

\* KiteConnect(api_key=...) followed by set_access_token(...)
KiteConnect(api_key, access_token) ==
    [api_key |-> api_key, access_token |-> access_token]

\* what the external collaborators answer during one attempt:
\*   profile1          kite.profile() with the cached token returns (TRUE) or raises
\*   generate_session  "raise", or the data's access_token ("" when absent/empty)
\*   profile2          kite.profile() with the new token returns or raises
\*   save              open()/json.dump() of config.json succeeds
\*   err               str(e) of whichever call raises
\* An answer to a call that is never made after the earlier answers is kept
\* at one fixed value, so that each course of an attempt is listed once.
Envs ==
    {e \in [profile1 : BOOLEAN,
            generate_session : {"raise", ""} \cup IssuedTokens,
            profile2 : BOOLEAN, save : BOOLEAN, err : ErrTexts] :
        /\ e.generate_session \in {"raise", ""} => e.profile2 /\ e.save
        /\ ~e.profile2 => e.save
        /\ (e.generate_session = "" \/
            (e.generate_session \in IssuedTokens /\ e.profile2))
              => e.err = "NetworkError"}

\* ------------------------------------------------------ Credential Store
\* lines 63-71: the loop over the records.  The matching record is assigned in
\* place (accounts aliases the session state's list) before the save is
\* tried; a save that fails (saveOk = FALSE, the except clause of lines 57-59)
\* is taken to leave config.json as it was, and the loop goes on.
RECURSIVE update_loop(_, _, _, _, _, _)
update_loop(i, account_id, access_token, saveOk, cfg, dsk) ==
    IF i > Len(cfg)
    THEN [ok |-> FALSE, cfg |-> cfg, disk |-> dsk, saves |-> 0]
    ELSE IF cfg[i].account_id = account_id
         THEN LET cfg2 == [cfg EXCEPT ![i].access_token = access_token]
              IN  IF saveOk
                  THEN [ok |-> TRUE, cfg |-> cfg2, disk |-> cfg2, saves |-> 1]
                  ELSE LET r == update_loop(i + 1, account_id, access_token,
                                            saveOk, cfg2, dsk)
                       IN  [r EXCEPT !.saves = @ + 1]
         ELSE update_loop(i + 1, account_id, access_token, saveOk, cfg, dsk)

\* update_account_access_token comparing against a key no record has
update_matching_nothing(account_id, access_token, saveOk, cfg, dsk) ==
    [ok |-> FALSE, cfg |-> cfg, disk |-> dsk, saves |-> 0]

\* update_account_access_token adding a record for an unknown account_id
update_or_insert(account_id, access_token, saveOk, cfg, dsk) ==
    IF \E i \in 1..Len(cfg) : cfg[i].account_id = account_id
    THEN update_loop(1, account_id, access_token, saveOk, cfg, dsk)
    ELSE LET cfg2 == Append(cfg, [account_id |-> account_id, api_key |-> "",
                                  secret_api_key |-> "", request_token |-> "",
                                  access_token |-> access_token])
         IN  [ok |-> saveOk, cfg |-> cfg2,
              disk |-> IF saveOk THEN cfg2 ELSE dsk, saves |-> 1]

\* lines 61-71
update_account_access_token(account_id, access_token, saveOk, cfg, dsk) ==
    update_loop(1, account_id, access_token, saveOk, cfg, dsk)

\* --------------------------------------------------- Session Authenticator
\* persist: "not_called", or what update_account_access_token returned
Ret(kite, msg, calls, cfg, dsk, persist) ==
    [kite |-> kite, msg |-> msg, calls |-> calls, cfg |-> cfg, disk |-> dsk,
     persist |-> persist]

\* one call of a network collaborator and its answer
ProfileCall(access_token, ok, error_msg) ==
    [op |-> "profile", token |-> access_token, api_secret |-> "",
     result |-> IF ok THEN "ok" ELSE "raise",
     err |-> IF ok THEN "" ELSE error_msg]

GenerateSessionCall(request_token, api_secret, answer, error_msg) ==
    [op |-> "generate_session", token |-> request_token,
     api_secret |-> api_secret, result |-> answer,
     err |-> IF answer = "raise" THEN error_msg ELSE ""]

\* MissingCredentials with "and" for "or"
MissingBothCredentials(api_key, secret_api_key) ==
    ~Truthy(api_key) /\ ~Truthy(secret_api_key)

\* line 91: if not api_key or not secret_api_key
MissingCredentials(api_key, secret_api_key) ==
    ~Truthy(api_key) \/ ~Truthy(secret_api_key)

\* TryExisting without the test that a token is saved
TryExistingUnchecked(try_access_token_first, existing_access_token) ==
    try_access_token_first

\* lines 98-100: the saved access_token is tried when asked for and non-blank
TryExisting(try_access_token_first, existing_access_token) ==
    /\ try_access_token_first
    /\ Truthy(existing_access_token)
    /\ Truthy(Strip(existing_access_token))

\* ExistingAccepted without the early return
ExistingNeverReturns(tried, profile_ok) == FALSE

\* lines 101-109: return on a profile that came back, fall through on a raise
ExistingAccepted(tried, profile_ok) == tried /\ profile_ok

\* ExistingRaiseIsFinal ending the attempt on the raise of the cached token
ExistingRaiseReturned(tried, profile_ok) == tried /\ ~profile_ok

\* lines 107-109: "except Exception as e: pass", the raise of the cached
\* token's round-trip never ends the attempt
ExistingRaiseIsFinal(tried, profile_ok) == FALSE

\* ExistingSession treating the saved token as spent once it was used
ExistingSessionSpendingToken(account_config, calls1, cfg, dsk) ==
    LET spent == [i \in 1..Len(cfg) |->
                    IF cfg[i].account_id = account_config.account_id
                    THEN [cfg[i] EXCEPT !.access_token = ""] ELSE cfg[i]]
    IN  Ret(KiteConnect(account_config.api_key, account_config.access_token),
            <<"Connected:", account_config.account_id,
              "(using saved access_token)">>,
            calls1, spent, dsk, "not_called")

\* lines 102-106: the session of the saved access_token, nothing written
ExistingSession(account_config, calls1, cfg, dsk) ==
    Ret(KiteConnect(account_config.api_key, account_config.access_token),
        <<"Connected:", account_config.account_id,
          "(using saved access_token)">>,
        calls1, cfg, dsk, "not_called")

\* line 113: which request_token to use
EffectiveRequestToken(user_request_token, stored_request_token) ==
    IF Truthy(user_request_token) THEN user_request_token
    ELSE stored_request_token

\* line 115: if not request_token or request_token.strip() == ''
RequestTokenRequired(request_token) ==
    ~Truthy(request_token) \/ Strip(request_token) = ""

\* AccessTokenMissing without the test
AccessTokenNeverMissing(access_token) == FALSE

\* line 122: if not access_token
AccessTokenMissing(access_token) == ~Truthy(access_token)

\* FailureMsg without the text of the exception
FailureMsgWithoutDetail(account_id, error_msg) ==
    <<"Authentication failed for", account_id>>

\* lines 136-138: the except clause's result
FailureMsg(account_id, error_msg) ==
    <<"Authentication failed for", account_id, error_msg>>

\* KiteAfterSave giving up the session when the token was not saved
KiteOnlyIfSaved(kite, saved) == IF saved THEN kite ELSE NoKite

\* lines 132-134: the result of update_account_access_token is dropped
KiteAfterSave(kite, saved) == kite

\* GenerateSession saving the new token before its profile round-trip
GenerateSessionSavingFirst(account_config, request_token, env, calls1, cfg, dsk) ==
    LET account_id == account_config.account_id
        api_key == account_config.api_key
        secret_api_key == account_config.secret_api_key
        calls2 == Append(calls1, GenerateSessionCall(request_token,
                            secret_api_key, env.generate_session, env.err))
        access_token == env.generate_session
        calls3 == Append(calls2, ProfileCall(access_token, env.profile2, env.err))
        sav == [cfg EXCEPT ![CHOOSE i \in 1..Len(cfg) :
                               cfg[i].account_id = account_id].access_token =
                             access_token]
    IN  IF env.generate_session = "raise"
        THEN Ret(NoKite, <<"Authentication failed for", account_id, env.err>>,
                 calls2, cfg, dsk, "not_called")
        ELSE IF ~Truthy(access_token)
        THEN Ret(NoKite, <<"Failed to get access token for", account_id>>,
                 calls2, cfg, dsk, "not_called")
        ELSE IF ~env.profile2
        THEN Ret(NoKite, <<"Authentication failed for", account_id, env.err>>,
                 calls3, sav, sav, "saved")
        ELSE Ret(KiteConnect(api_key, access_token),
                 <<"Connected:", account_id>>, calls3, sav, sav, "saved")

\* lines 118-134: exchange the request token, verify, save, return
GenerateSession(account_config, request_token, env, calls1, cfg, dsk) ==
    LET account_id == account_config.account_id
        api_key == account_config.api_key
        secret_api_key == account_config.secret_api_key
        calls2 == Append(calls1, GenerateSessionCall(request_token,
                            secret_api_key, env.generate_session, env.err))
        access_token == env.generate_session
        calls3 == Append(calls2, ProfileCall(access_token, env.profile2, env.err))
        upd == update_account_access_token(account_id, access_token, env.save,
                                           cfg, dsk)
    IN  IF env.generate_session = "raise"
        THEN Ret(NoKite, FailureMsg(account_id, env.err), calls2, cfg, dsk,
                 "not_called")
        ELSE IF AccessTokenMissing(access_token)
        THEN Ret(NoKite, <<"Failed to get access token for", account_id>>,
                 calls2, cfg, dsk, "not_called")
        ELSE IF ~env.profile2
        THEN Ret(NoKite, FailureMsg(account_id, env.err), calls3, cfg, dsk,
                 "not_called")
        ELSE Ret(KiteAfterSave(KiteConnect(api_key, access_token), upd.ok),
                 <<"Connected:", account_id>>, calls3, upd.cfg, upd.disk,
                 IF upd.ok THEN "saved" ELSE "failed")

\* lines 73-138
authenticate_account(account_config, user_request_token, try_access_token_first, env, cfg, dsk) ==
    LET account_id == account_config.account_id
        api_key == account_config.api_key
        secret_api_key == account_config.secret_api_key
        existing_access_token == account_config.access_token
        tried == TryExisting(try_access_token_first, existing_access_token)
        \* the error of a raise here is swallowed unread (lines 107-109)
        calls1 == IF tried
                  THEN <<ProfileCall(existing_access_token, env.profile1,
                                     "TokenException")>>
                  ELSE << >>
        request_token == EffectiveRequestToken(user_request_token,
                                               account_config.request_token)
    IN  IF MissingCredentials(api_key, secret_api_key)
        THEN Ret(NoKite, <<"Missing API credentials for", account_id>>,
                 << >>, cfg, dsk, "not_called")
        ELSE IF ExistingAccepted(tried, env.profile1)
        THEN ExistingSession(account_config, calls1, cfg, dsk)
        ELSE IF ExistingRaiseIsFinal(tried, env.profile1)
        THEN Ret(NoKite, FailureMsg(account_id, "TokenException"), calls1,
                 cfg, dsk, "not_called")
        ELSE IF RequestTokenRequired(request_token)
        THEN Ret(NoKite, <<"Request token required for", account_id>>,
                 calls1, cfg, dsk, "not_called")
        ELSE GenerateSession(account_config, request_token, env, calls1,
                             cfg, dsk)

\* ------------------------------------------------------------------ state
VARIABLES
    accounts_config,         \* st.session_state['accounts_config']
    disk,                    \* contents of config.json
    authenticated_accounts,  \* st.session_state['authenticated_accounts']
    account_request_tokens,  \* st.session_state['account_request_tokens']
    auto_auth_attempted,     \* st.session_state['auto_auth_attempted']
    last_run_log,            \* st.session_state['last_run_log'], newest first
    pc,                      \* position of the script: "start", "auto", "ui"
    autoIdx,                 \* index of the startup loop over accounts_config
    attempt,                 \* the call of authenticate_account made by the
                             \* step that led here, NoAttempt if it made none
    scheduler_running,       \* st.session_state['scheduler_running']
    threads,                 \* number of run_scheduler threads started
    export,                  \* the run of update_spreadsheet_logic in progress
                             \* or last finished
    update_call              \* the latest direct call of
                             \* update_account_access_token

schedVars == <<scheduler_running, threads, export>>

vars == <<accounts_config, disk, authenticated_accounts, account_request_tokens,
          auto_auth_attempted, last_run_log, pc, autoIdx, attempt,
          scheduler_running, threads, export, update_call>>

\* no export has fired: pc is "idle", "iter" (inside the loop of
\* get_all_accounts_data) or "dead" (the thread ended on an exception);
\* fired is the set of registered ids when the export fired, size the length
\* of the dictionary when its iteration began, data the accounts_data
\* fetched so far, sheet the outcome of load_google_sheet
NoExport ==
    [pc |-> "idle", by |-> "none", fired |-> << >>, size |-> 0, data |-> << >>,
     sheet |-> "not_called"]

NoUpdate ==
    [called |-> FALSE, account_id |-> "", access_token |-> "", ok |-> FALSE,
     saves |-> 0, cfg0 |-> << >>, disk0 |-> << >>]

\* the records config.json may hold: every combination of fields for the
\* first account, a complete record with either token for the second
ConfigRecords(id) ==
    IF id = AccountIds[1]
    THEN [account_id : {id}, api_key : ApiKeys, secret_api_key : ApiSecrets,
          request_token : StoredRequestTokens, access_token : StoredAccessTokens]
    ELSE {[account_id |-> id, api_key |-> "K2", secret_api_key |-> "S2",
           request_token |-> "", access_token |-> "AT0"],
          [account_id |-> id, api_key |-> "K2", secret_api_key |-> "S2",
           request_token |-> "RT1", access_token |-> ""]}

NoAttempt ==
    [caller |-> "none",
     account |-> [account_id |-> "", api_key |-> "", secret_api_key |-> "",
                  request_token |-> "", access_token |-> ""],
     user_request_token |-> "", try_access_token_first |-> TRUE,
     kite |-> NoKite, msg |-> << >>, calls |-> << >>,
     persist |-> "not_called",
     cfg0 |-> << >>, disk0 |-> << >>, registry0 |-> << >>]

\* dict[key] = value
DictSet(d, k, v) == [x \in DOMAIN d \cup {k} |-> IF x = k THEN v ELSE d[x]]

\* DictDel that deletes nothing
DictDelNothing(d, k) == d

\* del dict[key]
DictDel(d, k) == [x \in DOMAIN d \ {k} |-> d[x]]

\* line 726: account_id in st.session_state['authenticated_accounts']
is_connected(registry, account_id) == account_id \in DOMAIN registry

\* line 204: the ids that authenticated_accounts.items() goes through
RegisteredIds(registry) == DOMAIN registry

\* Insert0 putting the entry at the far end
InsertAtEnd(log, entry) == log \o <<entry>>

\* list.insert(0, entry)
Insert0(log, entry) == <<entry>> \o log

\* f"[{datetime.datetime.now()}] ..."
Stamped(text) == [stamped |-> TRUE, text |-> text]

\* a log line written without the timestamp prefix (lines 279, 303, 317, 664, 673)
Plain(text) == [stamped |-> FALSE, text |-> text]

\* first words of the lines update_spreadsheet_logic writes
ExportLines ==
    {"Starting automated data fetch...", "No authenticated accounts to sync",
     "Error GSheets:", "Skipping", "Updated", "All accounts synced successfully",
     "Error writing to sheet:"}

\* lines of the log written by attempts and disconnects
NumOps(log) ==
    Cardinality({i \in 1..Len(log) : log[i].text[1] \notin ExportLines})

\* firings of the export the log shows (line 268, once per firing)
NumExports(log) ==
    Cardinality({i \in 1..Len(log) :
                   log[i].text = <<"Starting automated data fetch...">>})

\* Register keeping the session an account already has
RegisterOnlyNew(registry, account_id, kite_obj) ==
    IF kite_obj # NoKite /\ account_id \notin DOMAIN registry
    THEN DictSet(registry, account_id, kite_obj)
    ELSE registry

\* Register without the test of kite_obj
RegisterUnconditionally(registry, account_id, kite_obj) ==
    DictSet(registry, account_id, kite_obj)

\* lines 703-704 and 777-778: if kite_obj: authenticated_accounts[id] = kite_obj
Register(registry, account_id, kite_obj) ==
    IF kite_obj # NoKite THEN DictSet(registry, account_id, kite_obj)
    ELSE registry

\* lines 20-31 and 687-688: fresh session state, accounts_config loaded
Init ==
    /\ disk \in {<<r1, r2>> : r1 \in ConfigRecords(AccountIds[1]),
                             r2 \in ConfigRecords(AccountIds[2])}
    /\ accounts_config = disk
    /\ authenticated_accounts = << >>
    /\ account_request_tokens = << >>
    /\ auto_auth_attempted = FALSE
    /\ last_run_log = << >>
    /\ pc = "start"
    /\ autoIdx = 0
    /\ attempt = NoAttempt
    /\ scheduler_running = FALSE
    /\ threads = 0
    /\ export = NoExport
    /\ update_call = NoUpdate

\* what the caller saw of one call of authenticate_account
Attempt(caller, account, user_request_token, try_access_token_first, r, env) ==
    [caller |-> caller, account |-> account,
     user_request_token |-> user_request_token,
     try_access_token_first |-> try_access_token_first,
     kite |-> r.kite, msg |-> r.msg, calls |-> r.calls,
     persist |-> r.persist,
     cfg0 |-> accounts_config, disk0 |-> disk,
     registry0 |-> authenticated_accounts]

\* AutoAuthGuard without the test of the flag
AutoAuthGuardWithoutFlag(attempted, cfg) == cfg # << >>

\* line 691: if not auto_auth_attempted and accounts_config
AutoAuthGuard(attempted, cfg) == ~attempted /\ cfg # << >>

\* AutoAuthEligible without the test of the saved token
AutoAuthEligibleAlways(access_token) == TRUE

\* line 698: if access_token and access_token.strip()
AutoAuthEligible(access_token) ==
    Truthy(access_token) /\ Truthy(Strip(access_token))

\* lines 691-692: the startup guard, evaluated by every run of the script
AutoAuthStart ==
    /\ pc = "start"
    /\ IF AutoAuthGuard(auto_auth_attempted, accounts_config)
       THEN /\ auto_auth_attempted' = TRUE
            /\ pc' = "auto"
            /\ autoIdx' = 1
       ELSE /\ pc' = "ui"
            /\ UNCHANGED <<auto_auth_attempted, autoIdx>>
    /\ UNCHANGED <<accounts_config, disk, authenticated_accounts,
                   account_request_tokens, last_run_log, attempt>>
    /\ UNCHANGED <<schedVars, update_call>>

\* lines 693-712: one iteration of the startup loop
AutoAuthStep ==
    /\ pc = "auto"
    /\ autoIdx <= Len(accounts_config)
    /\ LET account == accounts_config[autoIdx]
           account_id == account.account_id
           access_token == account.access_token
       IN  IF AutoAuthEligible(access_token)
           THEN /\ NumOps(last_run_log) < MaxLog
                /\ \E env \in Envs :
                     LET r == authenticate_account(account, "", TRUE, env,
                                                   accounts_config, disk)
                     IN  /\ accounts_config' = r.cfg
                         /\ disk' = r.disk
                         /\ attempt' = Attempt("auto", account, "", TRUE, r, env)
                         /\ authenticated_accounts' =
                              Register(authenticated_accounts, account_id, r.kite)
                         /\ last_run_log' = Insert0(last_run_log,
                              IF r.kite # NoKite
                              THEN Stamped(<<"Auto-connected:", account_id>>)
                              ELSE Stamped(<<"Auto-connect failed for",
                                             account_id>> \o r.msg))
           ELSE /\ attempt' = NoAttempt
                /\ UNCHANGED <<accounts_config, disk, authenticated_accounts,
                               last_run_log>>
    /\ autoIdx' = autoIdx + 1
    /\ UNCHANGED <<account_request_tokens, auto_auth_attempted, pc>>
    /\ UNCHANGED <<schedVars, update_call>>

\* end of the startup loop: the script goes on to render the sidebar
AutoAuthDone ==
    /\ pc = "auto"
    /\ autoIdx > Len(accounts_config)
    /\ pc' = "ui"
    /\ attempt' = NoAttempt
    /\ UNCHANGED <<accounts_config, disk, authenticated_accounts,
                   account_request_tokens, auto_auth_attempted, last_run_log,
                   autoIdx>>
    /\ UNCHANGED <<schedVars, update_call>>

\* lines 737-759: the user types a request token for an account
TypeToken(idx, user_token) ==
    /\ pc = "ui"
    /\ LET account == accounts_config[idx]
           account_id == account.account_id
           request_token == account.request_token
       IN  /\ IF ~Truthy(request_token) \/ Strip(request_token) = ""
              THEN Truthy(user_token)
              ELSE Truthy(user_token) /\ user_token # request_token
           /\ account_request_tokens' =
                DictSet(account_request_tokens, account_id, user_token)
    /\ attempt' = NoAttempt
    /\ UNCHANGED <<accounts_config, disk, authenticated_accounts,
                   auto_auth_attempted, last_run_log, pc, autoIdx>>
    /\ UNCHANGED <<schedVars, update_call>>

\* lines 765-768: the request token the Connect handler passes on
ConnectRequestToken(tokens, account) ==
    LET typed == IF account.account_id \in DOMAIN tokens
                 THEN tokens[account.account_id] ELSE ""
    IN  IF ~Truthy(typed) THEN account.request_token ELSE typed

\* lines 762-784: the Connect / Reconnect button of an account
Connect(idx) ==
    /\ pc = "ui"
    /\ NumOps(last_run_log) < MaxLog
    /\ LET account == accounts_config[idx]
           account_id == account.account_id
           user_req_token == ConnectRequestToken(account_request_tokens, account)
       IN  \E env \in Envs :
             LET r == authenticate_account(account, user_req_token, TRUE, env,
                                           accounts_config, disk)
             IN  /\ accounts_config' = r.cfg
                 /\ disk' = r.disk
                 /\ attempt' = Attempt("connect", account, user_req_token,
                                       TRUE, r, env)
                 /\ last_run_log' = Insert0(last_run_log, Stamped(r.msg))
                 /\ authenticated_accounts' =
                      Register(authenticated_accounts, account_id, r.kite)
    /\ UNCHANGED <<account_request_tokens, auto_auth_attempted, pc, autoIdx>>
    /\ UNCHANGED <<schedVars, update_call>>

\* StoreAfterDisconnect forgetting the saved access_token of the account
StoreForgettingToken(cfg, account_id) ==
    [i \in 1..Len(cfg) |->
        IF cfg[i].account_id = account_id
        THEN [cfg[i] EXCEPT !.access_token = ""] ELSE cfg[i]]

\* lines 786-792: the Disconnect handler does not write accounts_config
StoreAfterDisconnect(cfg, account_id) == cfg

\* lines 786-792: the Disconnect button of a connected account
Disconnect(idx) ==
    /\ pc = "ui"
    /\ NumOps(last_run_log) < MaxLog
    /\ LET account_id == accounts_config[idx].account_id
       IN  /\ account_id \in DOMAIN authenticated_accounts
           /\ authenticated_accounts' = DictDel(authenticated_accounts, account_id)
           /\ accounts_config' = StoreAfterDisconnect(accounts_config, account_id)
           /\ last_run_log' = Insert0(last_run_log,
                                      Stamped(<<"Disconnected:", account_id>>))
    /\ attempt' = NoAttempt
    /\ UNCHANGED <<disk, account_request_tokens, auto_auth_attempted, pc,
                   autoIdx>>
    /\ UNCHANGED <<schedVars, update_call>>

\* any interaction reruns the script from its first line
Rerun ==
    /\ pc = "ui"
    /\ pc' = "start"
    /\ attempt' = NoAttempt
    /\ UNCHANGED <<accounts_config, disk, authenticated_accounts,
                   account_request_tokens, auto_auth_attempted, last_run_log,
                   autoIdx>>
    /\ UNCHANGED <<schedVars, update_call>>

Next ==
    \/ Rerun
    \/ AutoAuthStart
    \/ AutoAuthStep
    \/ AutoAuthDone
    \/ \E idx \in 1..Len(accounts_config), t \in TypedTokens : TypeToken(idx, t)
    \/ \E idx \in 1..Len(accounts_config) : Connect(idx)
    \/ \E idx \in 1..Len(accounts_config) : Disconnect(idx)

Spec == Init /\ [][Next]_vars

\* ------------------------------------------------ the authenticator alone
\* request tokens a caller may pass to authenticate_account
CallerTokens == {"", " ", "RT1", "RT2"}

\* authenticate_account called on a record of the store with any arguments,
\* its result registered as both callers do (lines 699-704, 771-778)
Authenticate(idx, user_request_token, try_access_token_first) ==
    /\ pc = "call"
    /\ LET account == accounts_config[idx]
       IN  \E env \in Envs :
             LET r == authenticate_account(account, user_request_token,
                                           try_access_token_first, env,
                                           accounts_config, disk)
             IN  /\ accounts_config' = r.cfg
                 /\ disk' = r.disk
                 /\ attempt' = Attempt("call", account, user_request_token,
                                       try_access_token_first, r, env)
                 /\ authenticated_accounts' =
                      Register(authenticated_accounts, account.account_id, r.kite)
    /\ pc' = "returned"
    /\ UNCHANGED <<account_request_tokens, auto_auth_attempted, last_run_log,
                   autoIdx>>
    /\ UNCHANGED <<schedVars, update_call>>

InitAuth ==
    /\ disk \in {<<r1, r2>> : r1 \in ConfigRecords(AccountIds[1]),
                             r2 \in ConfigRecords(AccountIds[2])}
    /\ accounts_config = disk
    /\ authenticated_accounts = << >>
    /\ account_request_tokens = << >>
    /\ auto_auth_attempted = FALSE
    /\ last_run_log = << >>
    /\ pc = "call"
    /\ autoIdx = 0
    /\ attempt = NoAttempt
    /\ scheduler_running = FALSE
    /\ threads = 0
    /\ export = NoExport
    /\ update_call = NoUpdate

NextAuth ==
    \E idx \in 1..Len(accounts_config), t \in CallerTokens, f \in BOOLEAN :
        Authenticate(idx, t, f)

SpecAuth == InitAuth /\ [][NextAuth]_vars

\* a second call of authenticate_account, right after the first has returned,
\* on the store and the registry the first call left
AuthenticateAgain(idx, user_request_token, try_access_token_first) ==
    /\ pc = "returned"
    /\ LET account == accounts_config[idx]
       IN  \E env \in Envs :
             LET r == authenticate_account(account, user_request_token,
                                           try_access_token_first, env,
                                           accounts_config, disk)
             IN  /\ accounts_config' = r.cfg
                 /\ disk' = r.disk
                 /\ attempt' = Attempt("call", account, user_request_token,
                                       try_access_token_first, r, env)
                 /\ authenticated_accounts' =
                      Register(authenticated_accounts, account.account_id, r.kite)
    /\ pc' = "again"
    /\ UNCHANGED <<account_request_tokens, auto_auth_attempted, last_run_log,
                   autoIdx>>
    /\ UNCHANGED <<schedVars, update_call>>

NextTwice ==
    \/ \E idx \in 1..Len(accounts_config), t \in CallerTokens, f \in BOOLEAN :
          Authenticate(idx, t, f)
    \/ \E idx \in 1..Len(accounts_config), t \in CallerTokens, f \in BOOLEAN :
          AuthenticateAgain(idx, t, f)

SpecTwice == InitAuth /\ [][NextTwice]_vars

\* ------------------------------------------- the Credential Store alone
\* arguments of update_account_access_token: "A9" is in no record
UpdateIds == {"A1", "A2", "A9"}
UpdateTokens == {"", "AT1"}

\* update_account_access_token called with any arguments
UpdateToken(account_id, access_token, saveOk) ==
    /\ pc = "update"
    /\ LET r == update_account_access_token(account_id, access_token, saveOk,
                                            accounts_config, disk)
       IN  /\ accounts_config' = r.cfg
           /\ disk' = r.disk
           /\ update_call' = [called |-> TRUE, account_id |-> account_id,
                              access_token |-> access_token, ok |-> r.ok,
                              saves |-> r.saves, cfg0 |-> accounts_config,
                              disk0 |-> disk]
    /\ UNCHANGED <<authenticated_accounts, account_request_tokens,
                   auto_auth_attempted, last_run_log, pc, autoIdx, attempt>>
    /\ UNCHANGED schedVars

InitUpdate ==
    /\ disk \in {<<r1, r2>> : r1 \in ConfigRecords(AccountIds[1]),
                             r2 \in ConfigRecords(AccountIds[2])}
    /\ accounts_config = disk
    /\ authenticated_accounts = << >>
    /\ account_request_tokens = << >>
    /\ auto_auth_attempted = FALSE
    /\ last_run_log = << >>
    /\ pc = "update"
    /\ autoIdx = 0
    /\ attempt = NoAttempt
    /\ scheduler_running = FALSE
    /\ threads = 0
    /\ export = NoExport
    /\ update_call = NoUpdate

NextUpdate ==
    \E id \in UpdateIds, t \in UpdateTokens, saveOk \in BOOLEAN :
        UpdateToken(id, t, saveOk)

SpecUpdate == InitUpdate /\ [][NextUpdate]_vars

\* ------------------------------------------- the scheduler and the export
\* SchedulerShouldStart without the test of scheduler_running
SchedulerShouldStartAgain(enable_scheduler, running, registry) ==
    enable_scheduler /\ registry # << >>

\* lines 800-801: if enable_scheduler and not scheduler_running: if authenticated_accounts
SchedulerShouldStart(enable_scheduler, running, registry) ==
    enable_scheduler /\ ~running /\ registry # << >>

\* lines 800-808: a run of the script reaches the scheduler settings with the
\* checkbox as the user left it, and starts the thread
SchedulerStart ==
    /\ pc = "ui"
    /\ threads < MaxThreads
    /\ \E enable_scheduler \in BOOLEAN :
         SchedulerShouldStart(enable_scheduler, scheduler_running,
                              authenticated_accounts)
    /\ threads' = threads + 1
    /\ scheduler_running' = TRUE
    /\ attempt' = NoAttempt
    /\ UNCHANGED <<accounts_config, disk, authenticated_accounts,
                   account_request_tokens, auto_auth_attempted, last_run_log,
                   pc, autoIdx, export, update_call>>

\* RegistryAfterFetch dropping the session whose fetch failed
RegistryDroppingFailed(registry, account_id, error) ==
    IF error THEN DictDel(registry, account_id) ELSE registry

\* lines 173-175 and 205-211: get_kite_data catches the error and returns it
\* in the data; the registry is not touched
RegistryAfterFetch(registry, account_id, error) == registry

\* lines 205-211: accounts_data[account_id] = {... 'error': error}
Fetched(account_id, kite, error) ==
    [account_id |-> account_id, kite |-> kite, error |-> error]

FetchedIds(data) == {data[i].account_id : i \in 1..Len(data)}

\* lines 268-269: the first line of every firing
ExportStartLog(log) ==
    Insert0(log, Stamped(<<"Starting automated data fetch...">>))

\* lines 271-280: nothing registered when the export fires
ExportNothingLog(log) ==
    Insert0(ExportStartLog(log), Plain(<<"No authenticated accounts to sync">>))

\* lines 308-660: one line per account in the order of accounts_data, a
\* skipped account's line 317, and the lines of a written account (389-653)
\* taken as one; a write that raises ends the loop (line 666)
RECURSIVE AccountLines(_, _, _, _)
AccountLines(log, data, i, sheet) ==
    IF i > Len(data) THEN log
    ELSE IF data[i].error
         THEN AccountLines(Insert0(log, Plain(<<"Skipping", data[i].account_id,
                                                "FetchError">>)),
                           data, i + 1, sheet)
         ELSE IF sheet = "write_error" THEN log
              ELSE AccountLines(Insert0(log, Plain(<<"Updated",
                                                     data[i].account_id>>)),
                                data, i + 1, sheet)

\* what load_google_sheet and the worksheet writes can answer: a write can
\* raise only if some account has data to write
SheetAnswers(data) ==
    {"error", "ok"} \cup
    (IF \E i \in 1..Len(data) : ~data[i].error THEN {"write_error"} ELSE {})

\* lines 293-673: the log after the sheet was loaded and written
ExportEndLog(log, data, sheet) ==
    IF sheet = "error"
    THEN Insert0(log, Plain(<<"Error GSheets:", "SheetError">>))
    ELSE IF sheet = "write_error"
         THEN Insert0(AccountLines(log, data, 1, sheet),
                      Plain(<<"Error writing to sheet:", "WriteError">>))
         ELSE Insert0(AccountLines(log, data, 1, sheet),
                      Plain(<<"All accounts synced successfully">>))

\* the timer of run_scheduler fires update_spreadsheet_logic in the scheduler
\* thread (lines 678-681); lines 268-282 and 204 up to the creation of the
\* iterator over authenticated_accounts.items()
ExportBegin ==
    /\ threads >= 1
    /\ export.pc = "idle"
    /\ NumExports(last_run_log) < MaxExports
    /\ IF authenticated_accounts = << >>
       THEN /\ last_run_log' = ExportNothingLog(last_run_log)
            /\ export' = [pc |-> "idle", by |-> "timer",
                          fired |-> authenticated_accounts, size |-> 0,
                          data |-> << >>, sheet |-> "not_called"]
       ELSE /\ last_run_log' = ExportStartLog(last_run_log)
            /\ export' = [pc |-> "iter", by |-> "timer",
                          fired |-> authenticated_accounts,
                          size |-> Cardinality(DOMAIN authenticated_accounts),
                          data |-> << >>, sheet |-> "not_called"]
    /\ attempt' = NoAttempt
    /\ UNCHANGED <<accounts_config, disk, authenticated_accounts,
                   account_request_tokens, auto_auth_attempted, pc, autoIdx,
                   scheduler_running, threads, update_call>>

\* line 204, the iterator's next item: the dict has the size it had when the
\* iteration began; the item is one not yet visited, with the session the
\* dict holds for it now; lines 205-211 fetch it
ExportFetch ==
    /\ export.pc = "iter"
    /\ Cardinality(DOMAIN authenticated_accounts) = export.size
    /\ \E account_id \in RegisteredIds(authenticated_accounts) \ FetchedIds(export.data),
          error \in BOOLEAN :
         /\ export' = [export EXCEPT !.data =
                         Append(@, Fetched(account_id,
                                           authenticated_accounts[account_id],
                                           error))]
         /\ authenticated_accounts' =
              RegistryAfterFetch(authenticated_accounts, account_id, error)
    /\ attempt' = NoAttempt
    /\ UNCHANGED <<accounts_config, disk, account_request_tokens,
                   auto_auth_attempted, last_run_log, pc, autoIdx,
                   scheduler_running, threads, update_call>>

\* line 204, the iterator's next item after the dict changed size:
\* RuntimeError, raised outside the try of line 306, through
\* schedule.run_pending() and out of run_scheduler: the thread ends
ExportRaise ==
    /\ export.pc = "iter"
    /\ Cardinality(DOMAIN authenticated_accounts) # export.size
    /\ export' = [export EXCEPT !.pc = "dead"]
    /\ attempt' = NoAttempt
    /\ UNCHANGED <<accounts_config, disk, authenticated_accounts,
                   account_request_tokens, auto_auth_attempted, last_run_log,
                   pc, autoIdx, scheduler_running, threads, update_call>>

\* line 204 exhausted, then lines 293-673
ExportFinish ==
    /\ export.pc = "iter"
    /\ Cardinality(DOMAIN authenticated_accounts) = export.size
    /\ RegisteredIds(authenticated_accounts) \subseteq FetchedIds(export.data)
    /\ \E sheet \in SheetAnswers(export.data) :
         /\ export' = [export EXCEPT !.pc = "idle", !.sheet = sheet]
         /\ last_run_log' = ExportEndLog(last_run_log, export.data, sheet)
    /\ attempt' = NoAttempt
    /\ UNCHANGED <<accounts_config, disk, authenticated_accounts,
                   account_request_tokens, auto_auth_attempted, pc, autoIdx,
                   scheduler_running, threads, update_call>>

\* the orders in which a dict of these ids can be gone through
Orders(ids) ==
    {q \in UNION {[1..n -> ids] : n \in {Cardinality(ids)}} :
        {q[i] : i \in 1..Len(q)} = ids}

\* lines 820 and 963-972: "Force Sync to Google Sheet Now", shown only when
\* some account is registered; update_spreadsheet_logic runs in the script's
\* thread, the only one that writes the registry
ManualSync ==
    /\ pc = "ui"
    /\ export.pc # "iter"
    /\ authenticated_accounts # << >>
    /\ NumExports(last_run_log) < MaxExports
    /\ \E q \in Orders(RegisteredIds(authenticated_accounts)),
          errors \in [RegisteredIds(authenticated_accounts) -> BOOLEAN] :
         LET data == [i \in 1..Len(q) |->
                        Fetched(q[i], authenticated_accounts[q[i]], errors[q[i]])]
         IN  \E sheet \in SheetAnswers(data) :
               /\ export' = [pc |-> export.pc, by |-> "manual",
                             fired |-> authenticated_accounts,
                             size |-> Cardinality(DOMAIN authenticated_accounts),
                             data |-> data, sheet |-> sheet]
               /\ last_run_log' =
                    ExportEndLog(ExportStartLog(last_run_log), data, sheet)
    /\ attempt' = NoAttempt
    /\ UNCHANGED <<accounts_config, disk, authenticated_accounts,
                   account_request_tokens, auto_auth_attempted, pc, autoIdx,
                   scheduler_running, threads, update_call>>

\* config.json records with complete credentials and either a saved
\* access_token or a saved request_token
SchedRecords(id) ==
    {r \in ConfigRecords(id) :
        /\ r.api_key # "" /\ r.secret_api_key # ""
        /\ \/ r.access_token = "AT0" /\ r.request_token = ""
           \/ r.access_token = "" /\ r.request_token = "RT1"}

\* lines 20-31 and 687-688 with such a config.json: both accounts with a
\* saved access_token, or one of them
InitSched ==
    /\ disk \in {d \in SchedRecords(AccountIds[1]) \X SchedRecords(AccountIds[2]) :
                   d[1].access_token = "AT0" \/ d[2].access_token = "AT0"}
    /\ accounts_config = disk
    /\ authenticated_accounts = << >>
    /\ account_request_tokens = << >>
    /\ auto_auth_attempted = FALSE
    /\ last_run_log = << >>
    /\ pc = "start"
    /\ autoIdx = 0
    /\ attempt = NoAttempt
    /\ scheduler_running = FALSE
    /\ threads = 0
    /\ export = NoExport
    /\ update_call = NoUpdate

NextSched ==
    \/ Rerun
    \/ AutoAuthStart
    \/ AutoAuthStep
    \/ AutoAuthDone
    \/ \E idx \in 1..Len(accounts_config) : Connect(idx)
    \/ \E idx \in 1..Len(accounts_config) : Disconnect(idx)
    \/ SchedulerStart
    \/ ExportBegin
    \/ ExportFetch
    \/ ExportRaise
    \/ ExportFinish
    \/ ManualSync

SpecSched == InitSched /\ [][NextSched]_vars

\* ------------------------------------------------------------- the claims
\* an attempt has just returned to its caller
Made == attempt.caller # "none"
Succeeded == Made /\ attempt.kite # NoKite
Failed == Made /\ attempt.kite = NoKite

\* position in the store of the account of the attempt
AttemptIdx ==
    CHOOSE i \in 1..Len(accounts_config) :
        accounts_config[i].account_id = attempt.account.account_id

NumCalls == Len(attempt.calls)
CallsOf(op) == {i \in 1..NumCalls : attempt.calls[i].op = op}

StoreUnchanged == accounts_config = attempt.cfg0 /\ disk = attempt.disk0
RegistryUnchanged == authenticated_accounts = attempt.registry0
CredentialsPresent ==
    attempt.account.api_key # "" /\ attempt.account.secret_api_key # ""

\* C1: a failed attempt, from the startup loop or from Connect, leaves the
\* Registry and the Credential Store (in memory and on disk) as they were
\* before the attempt, for every account.
C1_FailedAttemptLeavesNoTrace ==
    Failed => StoreUnchanged /\ RegistryUnchanged

\* a Reconnect of a registered account fails at the verification of the newly
\* issued token, after the cached token was refused
C1_Witness ==
    /\ Failed
    /\ attempt.caller = "connect"
    /\ attempt.account.account_id \in DOMAIN attempt.registry0
    /\ NumCalls = 3
    /\ attempt.calls[3].result = "raise"

\* C2: when the cached token is to be tried first, is non-empty and its
\* profile round-trip returns, the attempt succeeds with that token, the
\* round-trip is its only collaborator call (no exchange), whatever the
\* login tokens are, and the Credential Store is not written.
C2_CachedSessionReturnsImmediately ==
    (/\ Made
     /\ attempt.try_access_token_first
     /\ attempt.account.access_token # ""
     /\ NumCalls >= 1
     /\ attempt.calls[1] = ProfileCall(attempt.account.access_token, TRUE, ""))
    => /\ Succeeded
       /\ attempt.kite.access_token = attempt.account.access_token
       /\ attempt.msg = <<"Connected:", attempt.account.account_id,
                          "(using saved access_token)">>
       /\ NumCalls = 1
       /\ CallsOf("generate_session") = {}
       /\ attempt.persist = "not_called"
       /\ StoreUnchanged

\* success on the cached token with no login token at all
C2_Witness ==
    /\ Succeeded
    /\ attempt.try_access_token_first
    /\ attempt.account.access_token = "AT0"
    /\ attempt.calls = <<ProfileCall("AT0", TRUE, "")>>
    /\ attempt.user_request_token = ""
    /\ attempt.account.request_token = ""

\* a usable login token: the caller's, or the stored one when the caller
\* passes none
NonBlank(t) == t # "" /\ t # " "
LoginTokenAvailable ==
    \/ NonBlank(attempt.user_request_token)
    \/ attempt.user_request_token = "" /\ NonBlank(attempt.account.request_token)

\* C3: when the round-trip of the non-empty cached token raises and a login
\* token is available, the exchange is called; when the exchange issues a
\* token and its round-trip returns, the attempt succeeds and the store holds
\* the issued token in place of the previous one (on disk too when the save
\* succeeded).
C3_FallThroughOverwritesToken ==
    (/\ Made
     /\ attempt.account.access_token # ""
     /\ NumCalls >= 1
     /\ attempt.calls[1] = ProfileCall(attempt.account.access_token, FALSE,
                                       "TokenException")
     /\ LoginTokenAvailable)
    => /\ NumCalls >= 2
       /\ attempt.calls[2].op = "generate_session"
       /\ (NumCalls = 3 /\ attempt.calls[3].result = "ok")
            => /\ Succeeded
               /\ attempt.kite.access_token = attempt.calls[2].result
               /\ accounts_config[AttemptIdx].access_token = attempt.calls[2].result
               /\ attempt.persist = "saved"
                    => disk[AttemptIdx].access_token = attempt.calls[2].result

\* the cached AT0 is refused, the exchange issues AT1, the store holds AT1
C3_Witness ==
    /\ Succeeded
    /\ attempt.account.access_token = "AT0"
    /\ NumCalls = 3
    /\ attempt.calls[1].result = "raise"
    /\ attempt.calls[2].result = "AT1"
    /\ attempt.cfg0[AttemptIdx].access_token = "AT0"
    /\ accounts_config[AttemptIdx].access_token = "AT1"
    /\ disk[AttemptIdx].access_token = "AT1"

\* the attempt went past the cached token without returning on it
PastCachedToken ==
    /\ Made
    /\ CredentialsPresent
    /\ ~(NumCalls = 1 /\ attempt.calls[1].op = "profile"
                      /\ attempt.calls[1].result = "ok")

\* the login token the claim calls effective, a whitespace-only token
\* counting as empty as on line 115
EffectiveLoginToken ==
    IF NonBlank(attempt.user_request_token) THEN attempt.user_request_token
    ELSE attempt.account.request_token

\* C4: the exchange is called with exactly (effective login token, API
\* secret), the effective token being the caller's when non-empty, else the
\* stored one; with neither, the attempt fails with "Request token required"
\* and no exchange.
C4_EffectiveLoginToken ==
    PastCachedToken =>
        IF NonBlank(EffectiveLoginToken)
        THEN \E i \in 1..NumCalls :
               /\ CallsOf("generate_session") = {i}
               /\ attempt.calls[i].token = EffectiveLoginToken
               /\ attempt.calls[i].api_secret = attempt.account.secret_api_key
        ELSE /\ Failed
             /\ attempt.msg = <<"Request token required for",
                                attempt.account.account_id>>
             /\ CallsOf("generate_session") = {}

\* C5: with an empty or absent API key or secret the attempt fails with
\* "Missing API credentials" before any collaborator call, whatever the
\* tokens and the try-cached flag are, and Registry and Credential Store are
\* unchanged.
C5_MissingCredentialsFailFirst ==
    (Made /\ ~CredentialsPresent)
    => /\ Failed
       /\ attempt.msg = <<"Missing API credentials for",
                          attempt.account.account_id>>
       /\ NumCalls = 0
       /\ attempt.persist = "not_called"
       /\ StoreUnchanged
       /\ RegistryUnchanged

\* only the secret is missing; a cached token and a login token are there
C5_Witness ==
    /\ Failed
    /\ attempt.account.api_key = "K1"
    /\ attempt.account.secret_api_key = ""
    /\ attempt.account.access_token = "AT0"
    /\ attempt.try_access_token_first
    /\ attempt.user_request_token = "RT2"
    /\ NumCalls = 0

\* C6: with credentials present, no cached session token and no login token
\* from the caller or the store, the attempt fails with "Request token
\* required" and calls no network collaborator.
C6_LoginTokenRequiredWithoutCalls ==
    (/\ Made
     /\ CredentialsPresent
     /\ ~NonBlank(attempt.account.access_token)
     /\ ~NonBlank(attempt.user_request_token)
     /\ ~NonBlank(attempt.account.request_token))
    => /\ Failed
       /\ attempt.msg = <<"Request token required for",
                          attempt.account.account_id>>
       /\ NumCalls = 0
       /\ attempt.persist = "not_called"
       /\ StoreUnchanged

\* everything empty but the credentials, cached token to be tried first
C6_Witness ==
    /\ Failed
    /\ CredentialsPresent
    /\ attempt.try_access_token_first
    /\ attempt.account.access_token = ""
    /\ attempt.user_request_token = ""
    /\ attempt.account.request_token = ""
    /\ NumCalls = 0

\* C7: when the exchange raises, it is the last collaborator call of the
\* attempt and the only exchange, the attempt fails with the text of the
\* raised error, and nothing is persisted.
C7_ExchangeFailureIsTerminal ==
    \A i \in CallsOf("generate_session") :
        attempt.calls[i].result = "raise"
        => /\ Failed
           /\ i = NumCalls
           /\ CallsOf("generate_session") = {i}
           /\ attempt.msg = <<"Authentication failed for",
                              attempt.account.account_id, attempt.calls[i].err>>
           /\ attempt.calls[i].err \in ErrTexts
           /\ attempt.persist = "not_called"
           /\ StoreUnchanged

\* the cached token is refused, then the exchange raises TokenException
C7_Witness ==
    /\ Failed
    /\ NumCalls = 2
    /\ attempt.calls[1].op = "profile"
    /\ attempt.calls[2].op = "generate_session"
    /\ attempt.calls[2].result = "raise"
    /\ attempt.msg[3] = "TokenException"

\* C8: the new token is saved only after its profile round-trip returned:
\* when that round-trip raises, the attempt fails and the store keeps the
\* previous token; whenever the store is written, the last collaborator call
\* is the returned round-trip of the token the exchange issued.
C8_PersistOnlyAfterVerification ==
    Made =>
      /\ (/\ NumCalls >= 2
          /\ attempt.calls[NumCalls - 1].op = "generate_session"
          /\ attempt.calls[NumCalls].op = "profile"
          /\ attempt.calls[NumCalls].result = "raise")
         => /\ Failed
            /\ attempt.msg = <<"Authentication failed for",
                               attempt.account.account_id,
                               attempt.calls[NumCalls].err>>
            /\ attempt.persist = "not_called"
            /\ StoreUnchanged
      /\ (attempt.persist # "not_called" \/ ~StoreUnchanged)
         => /\ NumCalls >= 2
            /\ attempt.calls[NumCalls - 1].op = "generate_session"
            /\ attempt.calls[NumCalls] =
                 ProfileCall(attempt.calls[NumCalls - 1].result, TRUE, "")

\* AT1 is issued, its round-trip raises, the store still holds AT0
C8_Witness ==
    /\ Failed
    /\ NumCalls = 3
    /\ attempt.calls[2].result = "AT1"
    /\ attempt.calls[3].result = "raise"
    /\ attempt.account.access_token = "AT0"
    /\ accounts_config[AttemptIdx].access_token = "AT0"
    /\ disk[AttemptIdx].access_token = "AT0"

\* C9: when the exchange returns without a session token, the attempt fails
\* with "Failed to get access token", the exchange is its last collaborator
\* call (no round-trip of a new token) and the store is not written.
C9_SessionTokenMissing ==
    \A i \in CallsOf("generate_session") :
        attempt.calls[i].result = ""
        => /\ Failed
           /\ attempt.msg = <<"Failed to get access token for",
                              attempt.account.account_id>>
           /\ i = NumCalls
           /\ attempt.persist = "not_called"
           /\ StoreUnchanged

\* no cached token, the exchange of RT1 returns no access_token
C9_Witness ==
    /\ Failed
    /\ NumCalls = 1
    /\ attempt.calls[1] = GenerateSessionCall("RT1", "S1", "", "")

\* C10: when the save of the verified new token fails, the attempt still
\* returns the verified session and the caller registers it.
C10_PersistenceFailureKeepsSession ==
    (Made /\ attempt.persist = "failed")
    => /\ Succeeded
       /\ NumCalls >= 2
       /\ attempt.calls[NumCalls] =
            ProfileCall(attempt.calls[NumCalls - 1].result, TRUE, "")
       /\ attempt.kite.access_token = attempt.calls[NumCalls - 1].result
       /\ attempt.account.account_id \in DOMAIN authenticated_accounts
       /\ authenticated_accounts[attempt.account.account_id] = attempt.kite

\* Connect registers the session of AT1 although config.json was not written
C10_Witness ==
    /\ Succeeded
    /\ attempt.caller = "connect"
    /\ attempt.persist = "failed"
    /\ attempt.kite.access_token = "AT1"
    /\ disk[AttemptIdx].access_token # "AT1"
    /\ authenticated_accounts[attempt.account.account_id].access_token = "AT1"

\* C11: update_account_access_token called with an account_id that no record
\* of the store has returns False, never calls the save, adds no record and
\* leaves the store in memory and config.json as they were.
C11_UpdateUnknownIdChangesNothing ==
    (/\ update_call.called
     /\ \A i \in 1..Len(update_call.cfg0) :
          update_call.cfg0[i].account_id # update_call.account_id)
    => /\ ~update_call.ok
       /\ update_call.saves = 0
       /\ accounts_config = update_call.cfg0
       /\ disk = update_call.disk0
       /\ Len(accounts_config) = Len(update_call.cfg0)

\* the call for "A9" comes after a failed save, when memory and config.json
\* differ: they still differ afterwards
C11_Witness ==
    /\ update_call.called
    /\ update_call.account_id = "A9"
    /\ ~update_call.ok
    /\ update_call.cfg0 # update_call.disk0
    /\ accounts_config # disk

\* the attempt a succeeded on the round-trip of the cached token alone
OnCachedToken(a) ==
    /\ a.caller # "none"
    /\ a.kite # NoKite
    /\ a.calls = <<ProfileCall(a.account.access_token, TRUE, "")>>

\* C12: when a call that succeeded on the cached token is followed by a call
\* for the same account, the store is as it was before the first call, the
\* second call gets the same credential and tries the same token first; when
\* that round-trip returns again, the second call returns the same session
\* and status, calls no exchange, and leaves the store as it was.
C12_CachedPathIdempotent ==
    [][(/\ OnCachedToken(attempt)
        /\ attempt'.caller # "none"
        /\ attempt'.try_access_token_first
        /\ attempt'.account.account_id = attempt.account.account_id)
       => /\ accounts_config = attempt.cfg0
          /\ disk = attempt.disk0
          /\ attempt'.account = attempt.account
          /\ Len(attempt'.calls) >= 1
          /\ attempt'.calls[1].op = "profile"
          /\ attempt'.calls[1].token = attempt.account.access_token
          /\ attempt'.calls[1].result = "ok"
               => /\ attempt'.kite = attempt.kite
                  /\ attempt'.msg = attempt.msg
                  /\ attempt'.calls = attempt.calls
                  /\ accounts_config' = accounts_config
                  /\ disk' = disk]_vars

\* the second of two calls, both answered from the stored token AT0
C12_Witness ==
    /\ pc = "again"
    /\ OnCachedToken(attempt)
    /\ attempt.account.access_token = "AT0"
    /\ attempt.account.account_id \in DOMAIN attempt.registry0
    /\ attempt.registry0[attempt.account.account_id] = attempt.kite
    /\ accounts_config = attempt.cfg0
    /\ disk = attempt.disk0

\* C13: while the newest log entry is the Disconnect of an account (whether
\* it was registered by a Connect or at startup, and whatever else is
\* registered), that account is reported as not connected and is not among
\* the sessions the bulk fetch goes through.
C13_RegisterThenUnregister ==
    \A idx \in 1..Len(accounts_config) :
        LET account_id == accounts_config[idx].account_id
        IN  (/\ last_run_log # << >>
             /\ last_run_log[1] = Stamped(<<"Disconnected:", account_id>>))
            => /\ ~is_connected(authenticated_accounts, account_id)
               /\ account_id \notin RegisteredIds(authenticated_accounts)

\* a successful Connect of the first account, then its Disconnect
C13_Witness ==
    /\ Len(last_run_log) = 2
    /\ last_run_log[1] = Stamped(<<"Disconnected:", AccountIds[1]>>)
    /\ last_run_log[2].text[1] = "Connected:"
    /\ last_run_log[2].text[2] = AccountIds[1]
    /\ ~is_connected(authenticated_accounts, AccountIds[1])

\* the entries of old are the last entries of new, in the same order
KeepsEntries(old, new) ==
    /\ Len(new) >= Len(old)
    /\ SubSeq(new, Len(new) - Len(old) + 1, Len(new)) = old

\* C14: every step keeps the entries of the activity log as they were and
\* only adds entries in front of them; the step of an authentication attempt
\* (startup or Connect, successful or not) adds exactly one entry, at the
\* head, with a timestamp.
C14_LogAppendOnlyOneEntryPerAttempt ==
    [][/\ KeepsEntries(last_run_log, last_run_log')
       /\ attempt'.caller # "none"
            => /\ Len(last_run_log') = Len(last_run_log) + 1
               /\ last_run_log'[1].stamped
               /\ last_run_log'[1].text[1] \notin ExportLines]_vars

\* a failed Connect logged on top of the lines of an export
C14_Witness ==
    /\ Failed
    /\ attempt.caller = "connect"
    /\ Len(last_run_log) >= 3
    /\ last_run_log[1] = Stamped(attempt.msg)
    /\ \E i \in 2..Len(last_run_log) : last_run_log[i].text[1] \in ExportLines
    /\ \E i \in 2..Len(last_run_log) : last_run_log[i].text[1] \notin ExportLines

\* C15: no step leaves more than one scheduler thread started; a started
\* thread comes with scheduler_running set; and once scheduler_running is set
\* every step (reruns, connects, disconnects, further evaluations of the
\* start condition) keeps it set and starts no thread.
C15_AtMostOneSchedulerThread ==
    [][/\ threads' <= 1
       /\ threads' >= 1 => scheduler_running'
       /\ scheduler_running => scheduler_running' /\ threads' = threads]_vars

\* the thread was started while an account was connected, the account was
\* then disconnected and the start condition is evaluated again
C15_Witness ==
    /\ threads = 1
    /\ scheduler_running
    /\ pc = "ui"
    /\ authenticated_accounts = << >>
    /\ last_run_log # << >>
    /\ last_run_log[1].text[1] = "Disconnected:"

\* C16: while the export is going through the registry (between the creation
\* of the iterator of line 204 and its end) no step adds or removes an entry
\* of the registry or replaces a session in it.
C16_ExportReadIsAtomic ==
    [][export.pc = "iter" => authenticated_accounts' = authenticated_accounts]_vars

\* an entry of the registry is added or replaced by this step
Registers(account_id) ==
    /\ account_id \in DOMAIN authenticated_accounts'
    /\ account_id \in DOMAIN authenticated_accounts
         => authenticated_accounts'[account_id] # authenticated_accounts[account_id]

\* an entry of the registry is removed by this step
Unregisters(account_id) ==
    /\ account_id \in DOMAIN authenticated_accounts
    /\ account_id \notin DOMAIN authenticated_accounts'

\* C17: an entry of the registry is added or replaced only by the step of a
\* successful authentication of that account, which stores the session the
\* authentication returned; an entry is removed only by the Disconnect of
\* that account; so no failed attempt, no step of the export and no fetch
\* error changes the registry.
C17_RegistryChangesOnlyByAuthAndDisconnect ==
    [][\A account_id \in {AccountIds[i] : i \in 1..Len(AccountIds)} :
         /\ Registers(account_id)
              => /\ attempt'.caller # "none"
                 /\ attempt'.account.account_id = account_id
                 /\ attempt'.kite # NoKite
                 /\ authenticated_accounts'[account_id] = attempt'.kite
         /\ Unregisters(account_id)
              => /\ attempt'.caller = "none"
                 /\ last_run_log' =
                      Insert0(last_run_log,
                              Stamped(<<"Disconnected:", account_id>>))]_vars

\* an export has fetched a registered account with an error, and a failed
\* Connect of the same account followed: the account is still registered
C17_Witness ==
    /\ Failed
    /\ attempt.caller = "connect"
    /\ is_connected(authenticated_accounts, attempt.account.account_id)
    /\ authenticated_accounts = attempt.registry0
    /\ \E i \in 1..Len(export.data) :
         /\ export.data[i].account_id = attempt.account.account_id
         /\ export.data[i].error

\* C18: auto_auth_attempted, once set, stays set; the startup loop is entered
\* only by a step that finds the flag unset and sets it; and every attempt
\* of the startup loop is made inside that loop, with the flag set: so after
\* the loop has run, no rerun, failed attempt or disconnect starts it again.
C18_AutoReconnectOnce ==
    [][/\ auto_auth_attempted => auto_auth_attempted'
       /\ (pc # "auto" /\ pc' = "auto")
            => ~auto_auth_attempted /\ auto_auth_attempted'
       /\ attempt'.caller = "auto"
            => pc = "auto" /\ auto_auth_attempted]_vars

\* the script runs again, with the flag set, after the startup loop attempted
\* an account and that account was disconnected by hand
C18_Witness ==
    /\ pc = "start"
    /\ auto_auth_attempted
    /\ autoIdx = Len(accounts_config) + 1
    /\ authenticated_accounts = << >>
    /\ Len(last_run_log) = 2
    /\ last_run_log[1].text[1] = "Disconnected:"
    /\ \E idx \in 1..Len(accounts_config) :
         AutoAuthEligible(accounts_config[idx].access_token)

\* the accounts the startup loop has logged an attempt for
AutoAttempted(log) ==
    {log[i].text[2] : i \in {j \in 1..Len(log) :
         log[j].text[1] \in {"Auto-connected:", "Auto-connect failed for"}}}

\* C19: while the startup loop runs, the accounts it has attempted are
\* exactly the accounts among those it has passed whose saved access_token
\* is not blank, each attempted once, whatever the earlier attempts
\* returned; an account with a blank access_token is passed without an
\* attempt, with or without a saved request_token.
C19_AutoAttemptsExactlyCachedTokens ==
    pc = "auto"
    => /\ AutoAttempted(last_run_log) =
            {accounts_config[i].account_id :
               i \in {j \in 1..(autoIdx - 1) :
                        NonBlank(accounts_config[j].access_token)}}
       /\ Len(last_run_log) = Cardinality(AutoAttempted(last_run_log))

\* the loop has passed both accounts: the attempt for the first failed, the
\* second was attempted all the same
C19_Witness ==
    /\ pc = "auto"
    /\ autoIdx = 3
    /\ Len(last_run_log) = 2
    /\ last_run_log[2].text[1] = "Auto-connect failed for"
    /\ last_run_log[2].text[2] = AccountIds[1]
    /\ last_run_log[1].text[2] = AccountIds[2]
    /\ attempt.caller = "auto"

\* the sessions the export fetched with are those registered when it fired
FetchedAsFired(e) ==
    /\ FetchedIds(e.data) = DOMAIN e.fired
    /\ \A i \in 1..Len(e.data) : e.data[i].kite = e.fired[e.data[i].account_id]

\* the log shows a firing that found nothing registered
NothingToSyncLogged(log) ==
    \E i \in 1..(Len(log) - 1) :
        /\ log[i] = Plain(<<"No authenticated accounts to sync">>)
        /\ log[i + 1] = Stamped(<<"Starting automated data fetch...">>)

\* C20: when a firing of the export (timer or manual sync) has ended, it has
\* fetched exactly the accounts registered at the moment it fired, each with
\* the session registered then; and a firing that found the registry empty
\* has logged that there is nothing to sync and has called neither the
\* broker nor the spreadsheet.
C20_ExportUsesSessionsAtFiring ==
    (export.by # "none" /\ export.pc # "iter")
    => /\ FetchedAsFired(export)
       /\ export.fired = << >>
            => /\ export.data = << >>
               /\ export.sheet = "not_called"
               /\ NothingToSyncLogged(last_run_log)

\* the records of new are those of old, in place, none with its saved
\* access_token emptied
KeepsTokens(old, new) ==
    /\ Len(new) = Len(old)
    /\ \A i \in 1..Len(old) :
         /\ new[i].account_id = old[i].account_id
         /\ old[i].access_token # "" => new[i].access_token # ""
         /\ NonBlank(old[i].access_token) => NonBlank(new[i].access_token)

FailureKind(a) ==
    IF a.caller = "none" \/ a.kite # NoKite THEN "none"
    ELSE IF a.account.api_key = "" \/ a.account.secret_api_key = ""
    THEN "MissingCredentials"
    ELSE IF a.calls = << >> \/ (Len(a.calls) = 1 /\ a.calls[1].op = "profile")
    THEN "LoginTokenRequired"
    ELSE IF a.calls[Len(a.calls)].op = "generate_session"
    THEN IF a.calls[Len(a.calls)].result = "raise"
         THEN "AuthExchangeFailed" ELSE "SessionTokenMissing"
    ELSE "SessionVerificationFailed"

\* C22: two failed attempts in a row for the same account that ended in
\* different kinds of failure return different results to the caller; in
\* particular an exchange that raises and a verification after the exchange
\* that raises with the same error text are told apart.
C22_FailureKindsDistinguishable ==
    [][(/\ FailureKind(attempt) # "none"
        /\ FailureKind(attempt') # "none"
        /\ attempt'.account.account_id = attempt.account.account_id
        /\ FailureKind(attempt') # FailureKind(attempt))
       => <<attempt'.kite, attempt'.msg>> # <<attempt.kite, attempt.msg>>]_vars

\* C23: when the round-trip of the cached token raises and neither the
\* caller nor the store has a login token, the attempt returns "Request
\* token required", not the failure of the round-trip, after that one
\* profile call and no exchange call.
C23_CachedFailureNotFinal ==
    (/\ Made
     /\ NumCalls >= 1
     /\ attempt.calls[1] = ProfileCall(attempt.account.access_token, FALSE,
                                       "TokenException")
     /\ ~NonBlank(attempt.user_request_token)
     /\ ~NonBlank(attempt.account.request_token))
    => /\ Failed
       /\ attempt.msg = <<"Request token required for",
                          attempt.account.account_id>>
       /\ NumCalls = 1
       /\ CallsOf("generate_session") = {}
       /\ StoreUnchanged

\* the saved token AT0 was tried and refused, no login token anywhere
C23_Witness ==
    /\ Failed
    /\ attempt.try_access_token_first
    /\ attempt.account.access_token = "AT0"
    /\ attempt.user_request_token = ""
    /\ attempt.account.request_token = ""
    /\ NumCalls = 1
    /\ attempt.calls[1].result = "raise"

\* the step is an attempt or a Disconnect for the account account_id
ActsOn(account_id) ==
    \/ attempt'.caller # "none" /\ attempt'.account.account_id = account_id
    \/ last_run_log' = Insert0(last_run_log,
                               Stamped(<<"Disconnected:", account_id>>))

\* new is old but for the saved access_token of account_id
SameButToken(old, new, account_id) ==
    /\ Len(new) = Len(old)
    /\ \A i \in 1..Len(old) :
         IF old[i].account_id = account_id
         THEN [new[i] EXCEPT !.access_token = ""] =
              [old[i] EXCEPT !.access_token = ""]
         ELSE new[i] = old[i]

\* new is old but for the entry of account_id
SameButEntry(old, new, account_id) ==
    /\ DOMAIN new \ {account_id} = DOMAIN old \ {account_id}
    /\ \A id \in DOMAIN old \ {account_id} : new[id] = old[id]

\* C24: a step that is an attempt or a Disconnect for an account changes,
\* in the store in memory and in config.json, nothing but that account's
\* saved access_token, and in the registry nothing but that account's entry.
C24_AttemptFrame ==
    [][\A i \in 1..Len(accounts_config) :
         ActsOn(accounts_config[i].account_id)
         => /\ SameButToken(accounts_config, accounts_config',
                            accounts_config[i].account_id)
            /\ SameButToken(disk, disk', accounts_config[i].account_id)
            /\ SameButEntry(authenticated_accounts, authenticated_accounts',
                            accounts_config[i].account_id)]_vars

\* C25: in every state, every registered account's session carries the
\* access_token that the store in memory holds for that account.
C25_HandleTokenMatchesStore ==
    \A i \in 1..Len(accounts_config) :
        LET account_id == accounts_config[i].account_id
        IN  is_connected(authenticated_accounts, account_id)
            => authenticated_accounts[account_id].access_token =
                 accounts_config[i].access_token

\* a Connect of an account registered with AT0 found that token refused,
\* exchanged a login token and replaced both the saved token and the session
C25_Witness ==
    /\ Succeeded
    /\ pc = "ui"
    /\ is_connected(attempt.registry0, attempt.account.account_id)
    /\ attempt.registry0[attempt.account.account_id].access_token = "AT0"
    /\ authenticated_accounts[attempt.account.account_id].access_token
         \in IssuedTokens
    /\ accounts_config[AttemptIdx].access_token =
         authenticated_accounts[attempt.account.account_id].access_token

\* the request tokens the attempt a passed to generate_session and got an
\* access_token for
Exchanged(a) ==
    {a.calls[i].token : i \in {j \in 1..Len(a.calls) :
        /\ a.calls[j].op = "generate_session"
        /\ a.calls[j].result \in IssuedTokens}}

\* the request tokens the attempt a passed to generate_session
Submitted(a) ==
    {a.calls[i].token : i \in {j \in 1..Len(a.calls) :
        a.calls[j].op = "generate_session"}}

\* C26: an attempt that follows an attempt for the same account passes to
\* generate_session no request token that the earlier attempt has already
\* exchanged for an access_token.
C26_LoginTokenOneTime ==
    [][(/\ attempt.caller # "none"
        /\ attempt'.caller # "none"
        /\ attempt'.account.account_id = attempt.account.account_id)
       => Submitted(attempt') \cap Exchanged(attempt) = {}]_vars

\* C27: after a call of update_account_access_token the store in memory and
\* config.json hold the same access_token for every account, and a call that
\* returns False has left the store in memory as it was.
C27_StoreAgreesWithFile ==
    update_call.called
    => /\ Len(accounts_config) = Len(disk)
       /\ \A i \in 1..Len(accounts_config) :
            accounts_config[i].access_token = disk[i].access_token
       /\ ~update_call.ok => accounts_config = update_call.cfg0

====
